---- MODULE Spec2Model ----
(***************************************************************************)
(* SwiftAMR: the k-mer index, the FASTA builder, the read aligner and the  *)
(* four exported wrappers (build_index, align_fastq, get_stats, cleanup),  *)
(* modelled from src/swiftamr/swiftamr.c, src/swiftamr/swiftamr.h and      *)
(* src/unnamed/part_001 (the exported wrappers, main.c in the README).     *)
(*                                                                         *)
(* Representation.  A byte is a one-character string; an input buffer is a *)
(* TLA+ string read with Byte(buf, i) at the 0-based offset i of the C     *)
(* code.  The scratch buffers the code writes into are tuples of bytes.    *)
(* A uint64_t is four 16-bit limbs <<w3, w2, w1, w0>> (TLC integers are    *)
(* 32 bits wide); UINT32_MAX is written as the bit pattern 0xFFFFFFFF read *)
(* as a signed 32-bit integer, -1.  A float that is the quotient of two    *)
(* small integers is kept as the pair <<numerator, denominator>>.          *)
(*                                                                         *)
(* A loop is a RECURSIVE operator over its counter that carries the values *)
(* the loop updates; the body of an iteration is an operator of its own    *)
(* (...Step), and a value that is read several times is passed as an       *)
(* operator argument.                                                      *)
(***************************************************************************)
EXTENDS Integers, Sequences, FiniteSets, TLC

\* ---------------------------------------------------------------- swiftamr.h
KMER_SIZE == 16
MAX_GENE_NAME == 256
MAX_SEQUENCE_LENGTH == 104857600
HASH_TABLE_SIZE == 16777216
INITIAL_GENES_CAPACITY == 1024
INITIAL_HITS_CAPACITY == 4
TSV_BYTES_PER_RESULT == 512
STATS_BUFFER_SIZE == 1024

UINT32_MAX == -1
LIMB == 65536
UINT64_MAX == <<LIMB - 1, LIMB - 1, LIMB - 1, LIMB - 1>>

NUL == "\\0"
NULL == [null |-> TRUE]

\* ------------------------------------------------------------------ <ctype.h>
LowerCase == "abcdefghijklmnopqrstuvwxyz"
UpperCase == "ABCDEFGHIJKLMNOPQRSTUVWXYZ"
UpperOf == [c \in {SubSeq(LowerCase, i, i) : i \in 1..26} |->
              SubSeq(UpperCase,
                     CHOOSE j \in 1..26 : SubSeq(LowerCase, j, j) = c,
                     CHOOSE j \in 1..26 : SubSeq(LowerCase, j, j) = c)]

toupper(c) == IF c \in DOMAIN UpperOf THEN UpperOf[c] ELSE c

isspace(c) == c \in {" ", "\t", "\n", "\r", "\f"}

\* The byte at 0-based offset i of an input buffer.
Byte(buf, i) == SubSeq(buf, i + 1, i + 1)

\* The byte at 0-based offset i of a scratch buffer (a tuple of bytes).
Mem(mem, i) == mem[i + 1]

\* mem[pos] = b, for pos at most one past the bytes written so far.
MemWrite(mem, pos, b) ==
    IF pos < Len(mem) THEN [mem EXCEPT ![pos + 1] = b] ELSE Append(mem, b)

\* strncpy(dst, str, n) followed by dst[n] = 0.
strncpy(str, n) == IF Len(str) > n THEN SubSeq(str, 1, n) ELSE str

strlen(mem) == CHOOSE n \in 0..(Len(mem) - 1) :
                   /\ mem[n + 1] = NUL
                   /\ \A k \in 0..(n - 1) : mem[k + 1] # NUL

\* ------------------------------------------------------------- k-mer codec
\* The switch of nt_to_int on the upper-cased byte u.
NtSwitch_N_as_A(u) ==
    CASE u = "A" -> 0
      [] u = "C" -> 1
      [] u = "G" -> 2
      [] u = "T" -> 3
      [] u = "N" -> 0
      [] OTHER -> -1

NtSwitch(u) ==
    CASE u = "A" -> 0
      [] u = "C" -> 1
      [] u = "G" -> 2
      [] u = "T" -> 3
      [] OTHER -> -1

nt_to_int(c) == NtSwitch(toupper(c))

\* kmer_is_valid(&mem[off]); the caller keeps off + KMER_SIZE inside the
\* bytes of mem.
kmer_is_valid(mem, off) ==
    \A i \in 0..(KMER_SIZE - 1) : nt_to_int(Mem(mem, off + i)) >= 0

\* The shift with the bits that leave a limb dropped.
ShiftIn_no_carry(kmer, nt) ==
    << (kmer[1] * 4) % LIMB, (kmer[2] * 4) % LIMB, (kmer[3] * 4) % LIMB,
       (kmer[4] * 4 + nt) % LIMB >>

\* (kmer << 2) | nt on a uint64_t held as four 16-bit limbs.
ShiftIn(kmer, nt) ==
    << (kmer[1] * 4 + (kmer[2] \div (LIMB \div 4))) % LIMB,
       (kmer[2] * 4 + (kmer[3] \div (LIMB \div 4))) % LIMB,
       (kmer[3] * 4 + (kmer[4] \div (LIMB \div 4))) % LIMB,
       (kmer[4] * 4 + nt) % LIMB >>

RECURSIVE kmer_encode_loop(_, _, _, _)
kmer_encode_loop(mem, off, i, kmer) ==
    IF i >= KMER_SIZE THEN kmer
    ELSE IF nt_to_int(Mem(mem, off + i)) < 0 THEN UINT64_MAX
    ELSE kmer_encode_loop(mem, off, i + 1,
                          ShiftIn(kmer, nt_to_int(Mem(mem, off + i))))

\* kmer_encode(&mem[off])
kmer_encode(mem, off) == kmer_encode_loop(mem, off, 0, <<0, 0, 0, 0>>)

\* kmer % index->table_size, for table_size = 2^24 = 256 * LIMB.
BucketOf(kmer) == (kmer[3] % (HASH_TABLE_SIZE \div LIMB)) * LIMB + kmer[4]

\* --------------------------------------------------------------- allocation
\* One call runs on a machine m: the index it works on, the number of
\* allocations it has attempted (allocs), the ordinal of the allocation that
\* fails (fail, 0 for none), the number of KmerIndex objects allocated and not
\* yet freed (live), whether the call has trapped (trap) and how the build
\* resolves a store through a null pointer (ub: "trap" as on a native build,
\* "go" as on a WebAssembly build, where address 0 is writable; what the store
\* was meant to set is then lost and the index is marked corrupt).
Machine(index, live, fail, ub) ==
    [index |-> index, live |-> live, allocs |-> 0, fail |-> fail, ub |-> ub,
     trap |-> FALSE]

\* Does the next malloc/calloc/realloc of the call succeed?
AllocOk(m) == m.allocs + 1 # m.fail

\* The machine after n more allocations were attempted.
Allocated(m, n) == [m EXCEPT !.allocs = @ + n]

\* A store through a null pointer.
NullStore(m) ==
    IF m.ub = "trap" THEN [m EXCEPT !.trap = TRUE]
    ELSE [m EXCEPT !.index.corrupt = TRUE]

\* ------------------------------------------------------------------- index
\* The index index_create returns: the table is kept as a function from the
\* non-empty buckets to their chains, a chain as the sequence of its KmerEntry
\* nodes from the head.
EmptyIndex ==
    [table |-> << >>, table_size |-> HASH_TABLE_SIZE, genes |-> << >>,
     num_genes |-> 0, genes_capacity |-> INITIAL_GENES_CAPACITY,
     corrupt |-> FALSE]

\* index_create: three callocs in a row; the first that fails ends the call
\* with NULL (what was allocated before it is freed again).
index_create(m) ==
    IF m.fail \in (m.allocs + 1)..(m.allocs + 3)
    THEN [m EXCEPT !.index = NULL, !.allocs = m.fail]
    ELSE [m EXCEPT !.index = EmptyIndex, !.allocs = @ + 3, !.live = @ + 1]

\* index_destroy(m.index): every chain, every gene sequence, the two tables
\* and the index itself are freed; the pointer the caller holds is untouched.
index_destroy_leaks(m) == m

index_destroy(m) ==
    IF m.index = NULL THEN m ELSE [m EXCEPT !.live = @ - 1]

\* The head of the chain, whatever k-mer it holds.
ChainFind_any(chain, kmer, n) ==
    IF n > Len(chain) THEN 0 ELSE n

\* The position (1-based) in a chain of the entry holding kmer, 0 if none:
\* the walk `while (entry && entry->kmer != kmer)`.
RECURSIVE ChainFind(_, _, _)
ChainFind(chain, kmer, n) ==
    IF n > Len(chain) THEN 0
    ELSE IF chain[n].kmer = kmer THEN n
    ELSE ChainFind(chain, kmer, n + 1)

\* index->table[hash] as a chain.
ChainOf(index, hash) ==
    IF hash \in DOMAIN index.table THEN index.table[hash] ELSE << >>

\* The table with the chain of one bucket replaced.
WithChain(table, hash, chain) ==
    [h \in (DOMAIN table) \cup {hash} |-> IF h = hash THEN chain ELSE table[h]]

\* A KmerEntry that keeps only its newest hit.
WithHit_replace(entry, gene_id, position) ==
    [entry EXCEPT
       !.hits = <<[gene_id |-> gene_id, position |-> position]>>,
       !.num_hits = 1]

\* A KmerEntry that holds one more hit.
WithHit(entry, gene_id, position) ==
    [entry EXCEPT
       !.capacity = IF entry.num_hits >= entry.capacity THEN 2 * @ ELSE @,
       !.hits = Append(@, [gene_id |-> gene_id, position |-> position]),
       !.num_hits = @ + 1]

\* The tail of kmer_add_to_index on entry n of the chain: grow the hit array
\* when it is full (an unchecked realloc), then store the hit.
StoreHit(m, hash, chain, n, gene_id, position) ==
    IF chain[n].num_hits >= chain[n].capacity /\ ~AllocOk(m)
    THEN NullStore(Allocated(m, 1))
    ELSE [m EXCEPT
            !.allocs = IF chain[n].num_hits >= chain[n].capacity
                       THEN @ + 1 ELSE @,
            !.index.table =
               WithChain(@, hash,
                         [chain EXCEPT ![n] = WithHit(@, gene_id, position)])]

\* kmer_add_to_index once the chain has been walked: found is the position of
\* the entry, 0 when a new one is created (calloc of the entry, malloc of its
\* hit array, both unchecked) and linked at the tail.
AddToChain(m, kmer, hash, chain, found, gene_id, position) ==
    IF found = 0 /\ m.fail \in (m.allocs + 1)..(m.allocs + 2)
    THEN NullStore(Allocated(m, 2))
    ELSE StoreHit(IF found # 0 THEN m ELSE Allocated(m, 2),
                  hash,
                  IF found # 0 THEN chain
                  ELSE Append(chain, [kmer |-> kmer, hits |-> << >>,
                                      num_hits |-> 0,
                                      capacity |-> INITIAL_HITS_CAPACITY]),
                  IF found # 0 THEN found ELSE Len(chain) + 1,
                  gene_id, position)

kmer_add_to_index(m, kmer, gene_id, position) ==
    AddToChain(m, kmer, BucketOf(kmer), ChainOf(m.index, BucketOf(kmer)),
               ChainFind(ChainOf(m.index, BucketOf(kmer)), kmer, 1),
               gene_id, position)

\* The chain entry at position found, NULL for found = 0.
EntryAt(chain, found) == IF found = 0 THEN NULL ELSE chain[found]

\* kmer_lookup: the entry, or NULL.
kmer_lookup(index, kmer) ==
    EntryAt(ChainOf(index, BucketOf(kmer)),
            ChainFind(ChainOf(index, BucketOf(kmer)), kmer, 1))

\* `if (kmer != UINT64_MAX) kmer_add_to_index(index, kmer, gene_id, i);`
AddEncoded(m, kmer, gene_id, i) ==
    IF kmer # UINT64_MAX THEN kmer_add_to_index(m, kmer, gene_id, i) ELSE m

\* One iteration of the k-mer loop of index_add_gene, at window i.
AddGeneKmer(m, mem, gene_id, i) ==
    IF kmer_is_valid(mem, i)
    THEN AddEncoded(m, kmer_encode(mem, i), gene_id, i)
    ELSE m

\* The k-mer loop of index_add_gene, `for (i = 0; i <= length - KMER_SIZE;
\* i++)`, over the windows lo .. hi; the windows are visited in order, as two
\* halves to keep the evaluation shallow.
RECURSIVE AddGeneKmers(_, _, _, _, _)
AddGeneKmers(m, mem, gene_id, lo, hi) ==
    IF lo > hi \/ m.trap THEN m
    ELSE IF lo = hi THEN AddGeneKmer(m, mem, gene_id, lo)
    ELSE AddGeneKmers(AddGeneKmers(m, mem, gene_id, lo, (lo + hi) \div 2),
                      mem, gene_id, ((lo + hi) \div 2) + 1, hi)

\* The Gene stored for the scratch buffer mem.
GeneOf(name, mem, length) ==
    [name |-> strncpy(name, MAX_GENE_NAME - 1),
     sequence |-> SubSeq(mem, 1, length),
     length |-> length]

\* index_add_gene after the k-mer loop.  A gene shorter than KMER_SIZE never
\* gets here: see index_add_gene.
AddGeneDone(m, gene_id, wraps) ==
    IF wraps \/ m.trap THEN [m |-> [m EXCEPT !.trap = TRUE], ret |-> gene_id]
    ELSE [m |-> [m EXCEPT !.index.num_genes = @ + 1], ret |-> gene_id]

\* index_add_gene from `uint32_t gene_id = index->num_genes` on.
\*
\* length - KMER_SIZE is computed in uint32_t.  For length >= KMER_SIZE the
\* loop visits the windows 0 .. length - KMER_SIZE of the gene.  For a shorter
\* gene the bound wraps to 2^32 - (KMER_SIZE - length): the loop goes on past
\* the terminating NUL, first through the bytes an earlier, longer record left
\* in the scratch buffer (each window of them that is valid is indexed under
\* this gene id), then into bytes the build never wrote and on past the end of
\* the 100 MiB allocation, towards 4 GiB beyond the buffer: the walk leaves
\* the mapped memory and the call traps.  What the loop indexed from
\* indeterminate bytes on its way is seen by no later call and is left out.
AddGeneBody(m, name, mem, length) ==
    IF ~AllocOk(m) THEN [m |-> Allocated(m, 1), ret |-> -1]
    ELSE AddGeneDone(
           AddGeneKmers(
             [m EXCEPT !.allocs = @ + 1,
                       !.index.genes = Append(@, GeneOf(name, mem, length))],
             mem, m.index.num_genes, 0,
             IF length < KMER_SIZE THEN Len(mem) - KMER_SIZE
             ELSE length - KMER_SIZE),
           m.index.num_genes, length < KMER_SIZE)

\* index_add_gene(index, name, sequence), with sequence the scratch buffer mem
\* of the builder: the machine and the return value.  When the gene table is
\* full it is doubled with realloc; on failure index->genes is left NULL.
index_add_gene(m, name, mem) ==
    IF m.index.num_genes >= m.index.genes_capacity /\ ~AllocOk(m)
    THEN [m |-> [m EXCEPT !.allocs = @ + 1, !.index.genes = << >>,
                          !.index.genes_capacity = 2 * @,
                          !.index.corrupt = TRUE],
          ret |-> -1]
    ELSE AddGeneBody(IF m.index.num_genes >= m.index.genes_capacity
                     THEN [m EXCEPT !.allocs = @ + 1,
                                    !.index.genes_capacity = 2 * @]
                     ELSE m,
                     name, mem, strlen(mem))

\* ------------------------------------------------------------ FASTA builder
\* The locals of index_build_from_fasta:
\* b = [m, gene_name, mem, seq_pos, in_sequence, genes_added], with mem the
\* bytes of the scratch buffer `sequence` written so far in this call.

\* b after index_add_gene returned r for the terminated buffer mem.
GeneSaved(b, mem, r) ==
    [b EXCEPT !.m = r.m, !.mem = mem,
              !.genes_added = IF r.ret >= 0 THEN @ + 1 ELSE @]

\* `if (in_sequence && seq_pos > 0) { sequence[seq_pos] = '\0'; if
\* (index_add_gene(...) >= 0) genes_added++; }`
SaveGene(b) ==
    IF b.in_sequence /\ b.seq_pos > 0
    THEN GeneSaved(b, MemWrite(b.mem, b.seq_pos, NUL),
                   index_add_gene(b.m, b.gene_name,
                                  MemWrite(b.mem, b.seq_pos, NUL)))
    ELSE b

\* The header loop: on return i is the offset of the byte ending the header.
RECURSIVE ParseGeneName(_, _, _, _)
ParseGeneName(fasta_data, fasta_size, i, name) ==
    IF i < fasta_size /\ Byte(fasta_data, i) \notin {"\n", "\r"}
    THEN ParseGeneName(fasta_data, fasta_size, i + 1,
                       IF Len(name) < MAX_GENE_NAME - 1
                       THEN name \o Byte(fasta_data, i) ELSE name)
    ELSE [i |-> i, name |-> name]

\* The '>' branch after the previous gene was saved and the header h parsed;
\* the for loop then steps over the byte that ended the header.
NewRecord(b, saved, h) ==
    [i |-> h.i + 1,
     b |-> [saved EXCEPT
              !.seq_pos = IF b.in_sequence /\ b.seq_pos > 0 THEN 0 ELSE @,
              !.in_sequence = TRUE,
              !.gene_name = h.name]]

\* One iteration of the for loop at offset i: the next offset and locals.
BuildStep_name_first(fasta_data, fasta_size, i, b) ==
    IF Byte(fasta_data, i) = ">"
    THEN NewRecord(b,
                   SaveGene([b EXCEPT !.gene_name =
                      ParseGeneName(fasta_data, fasta_size, i + 1, "").name]),
                   ParseGeneName(fasta_data, fasta_size, i + 1, ""))
    ELSE [i |-> i + 1,
          b |-> IF /\ b.in_sequence
                   /\ ~isspace(Byte(fasta_data, i))
                   /\ b.seq_pos < MAX_SEQUENCE_LENGTH - 1
                THEN [b EXCEPT !.mem = MemWrite(@, b.seq_pos,
                                                toupper(Byte(fasta_data, i))),
                               !.seq_pos = @ + 1]
                ELSE b]

BuildStep(fasta_data, fasta_size, i, b) ==
    IF Byte(fasta_data, i) = ">"
    THEN NewRecord(b, SaveGene(b),
                   ParseGeneName(fasta_data, fasta_size, i + 1, ""))
    ELSE [i |-> i + 1,
          b |-> IF /\ b.in_sequence
                   /\ ~isspace(Byte(fasta_data, i))
                   /\ b.seq_pos < MAX_SEQUENCE_LENGTH - 1
                THEN [b EXCEPT !.mem = MemWrite(@, b.seq_pos,
                                                toupper(Byte(fasta_data, i))),
                               !.seq_pos = @ + 1]
                ELSE b]

\* The for loop of index_build_from_fasta, run for at most n iterations from
\* s = [i, b].  Every iteration advances i, so fasta_size iterations complete
\* the loop; they are run as two halves to keep the evaluation shallow.
RECURSIVE BuildLoop(_, _, _, _)
BuildLoop(fasta_data, fasta_size, s, n) ==
    IF n = 0 \/ s.i >= fasta_size \/ s.b.m.trap THEN s
    ELSE IF n = 1 THEN BuildStep(fasta_data, fasta_size, s.i, s.b)
    ELSE BuildLoop(fasta_data, fasta_size,
                   BuildLoop(fasta_data, fasta_size, s, n \div 2),
                   n - (n \div 2))

\* "Add last gene", and the return.
BuildReturn(b) == [m |-> b.m, ret |-> b.genes_added]

BuildEnd(b) == BuildReturn(IF b.m.trap THEN b ELSE SaveGene(b))

\* index_build_from_fasta(m.index, fasta_data, fasta_size): the machine and
\* the return value.
index_build_from_fasta(m, fasta_data, fasta_size) ==
    IF ~AllocOk(m) THEN [m |-> Allocated(m, 1), ret |-> -1]
    ELSE BuildEnd(BuildLoop(fasta_data, fasta_size,
                            [i |-> 0,
                             b |-> [m |-> Allocated(m, 1), gene_name |-> "",
                                    mem |-> << >>, seq_pos |-> 0,
                                    in_sequence |-> FALSE, genes_added |-> 0]],
                            fasta_size).b)

\* ------------------------------------------------------------- read aligner
WORDS_PER_GENE == (MAX_SEQUENCE_LENGTH \div 32) + 1

\* uint32_t arithmetic.  A value that may pass 2^31 is held as two 16-bit
\* limbs <<high, low>>; U32 is the conversion of an int below 2^31.
U32(n) == <<n \div LIMB, n % LIMB>>

\* The 32-bit product of two 16-bit limbs, by the bytes of the second.
MulLimbSum(low, high) ==
    << ((high \div 256) + ((low + (high % 256) * 256) \div LIMB)) % LIMB,
       (low + (high % 256) * 256) % LIMB >>

MulLimb(a, b) == MulLimbSum(a * (b % 256), a * (b \div 256))

\* x * y and x + y in uint32_t (mod 2^32), and x < y.
Mul32Sum(low, cross1, cross2) ==
    << (low[1] + cross1[2] + cross2[2]) % LIMB, low[2] >>

Mul32(x, y) ==
    Mul32Sum(MulLimb(x[2], y[2]), MulLimb(x[1], y[2]), MulLimb(x[2], y[1]))

Add32(x, y) ==
    << (x[1] + y[1] + ((x[2] + y[2]) \div LIMB)) % LIMB, (x[2] + y[2]) % LIMB >>

Less32(x, y) == x[1] < y[1] \/ (x[1] = y[1] /\ x[2] < y[2])

\* The number of words of the calloc of coverage_bitmap.
BitmapWords(num_genes) == Mul32(U32(num_genes), U32(WORDS_PER_GENE))

\* base_idx of a gene, and bit_idx for a position from it.
BaseIdx(gene_id) == Mul32(U32(gene_id), U32(WORDS_PER_GENE))

BitIdx(base_idx, pos) == Add32(base_idx, U32(pos \div 32))

\* coverage_bitmap[bit_idx] |= (1U << bit).  The bitmap is a function from the
\* words that were touched to the set of their bits that are set; a word that
\* was never touched is zero (calloc).
SetBit(bitmap, bit_idx, bit) ==
    [w \in (DOMAIN bitmap) \cup {bit_idx} |->
        IF w = bit_idx
        THEN (IF w \in DOMAIN bitmap THEN bitmap[w] ELSE {}) \cup {bit}
        ELSE bitmap[w]]

TestBit(bitmap, bit_idx, bit) ==
    bit_idx \in DOMAIN bitmap /\ bit \in bitmap[bit_idx]

\* The body of the hits loop of align_read.  a = [scores, coverage_bitmap,
\* total_kmers], scores a function from the gene ids.
ScoreHit(a, hit) ==
    [a EXCEPT
       !.scores[hit.gene_id] = @ + 1,
       !.coverage_bitmap =
          SetBit(@, BitIdx(BaseIdx(hit.gene_id), hit.position),
                 hit.position % 32)]

\* The hits loop over entry->hits[j .. num_hits - 1].
ScoreHits_once(a, entry, j) ==
    IF j >= entry.num_hits THEN a ELSE ScoreHit(a, entry.hits[j + 1])

RECURSIVE ScoreHits(_, _, _)
ScoreHits(a, entry, j) ==
    IF j >= entry.num_hits THEN a
    ELSE ScoreHits(ScoreHit(a, entry.hits[j + 1]), entry, j + 1)

\* `if (entry) { ... }`
ScoreEntry(a, entry) == IF entry # NULL THEN ScoreHits(a, entry, 0) ELSE a

\* `if (kmer == UINT64_MAX) continue; total_kmers++; entry = kmer_lookup(...)`
ScoreEncoded(index, a, kmer) ==
    IF kmer = UINT64_MAX THEN a
    ELSE ScoreEntry([a EXCEPT !.total_kmers = @ + 1], kmer_lookup(index, kmer))

\* One iteration of the window loop of align_read, for s = [i, a].
ScanStep(index, mem, s) ==
    [i |-> s.i + 1,
     a |-> IF kmer_is_valid(mem, s.i)
           THEN ScoreEncoded(index, s.a, kmer_encode(mem, s.i))
           ELSE s.a]

\* The window loop of align_read, `for (i = 0; i <= seq_len - KMER_SIZE;
\* i++)`, run for at most n iterations from s (seq_len iterations complete
\* it), as two halves to keep the evaluation shallow.
RECURSIVE ScanRead(_, _, _, _, _)
ScanRead(index, mem, seq_len, s, n) ==
    IF n = 0 \/ s.i > seq_len - KMER_SIZE THEN s
    ELSE IF n = 1 THEN ScanStep(index, mem, s)
    ELSE ScanRead(index, mem, seq_len,
                  ScanRead(index, mem, seq_len, s, n \div 2),
                  n - (n \div 2))

\* Winner-takes-all: the loop over gene ids i .. num_genes - 1.
RECURSIVE BestGene_last_wins(_, _, _, _)
BestGene_last_wins(scores, num_genes, i, best) ==
    IF i >= num_genes THEN best
    ELSE BestGene_last_wins(scores, num_genes, i + 1,
                  IF scores[i] >= best.best_score /\ scores[i] > 0
                  THEN [best_gene |-> i, best_score |-> scores[i]] ELSE best)

RECURSIVE BestGene(_, _, _, _)
BestGene(scores, num_genes, i, best) ==
    IF i >= num_genes THEN best
    ELSE BestGene(scores, num_genes, i + 1,
                  IF scores[i] > best.best_score
                  THEN [best_gene |-> i, best_score |-> scores[i]] ELSE best)

\* The count taken in the words of gene 0, whatever the gene.
CoveredPositions_first_gene(bitmap, base_idx, gene_len) ==
    Cardinality({pos \in 0..(gene_len - 1) :
                    TestBit(bitmap, BitIdx(U32(0), pos), pos % 32)})

\* The number of set bits among positions 0 .. gene_len - 1 of the gene whose
\* words start at base_idx.
CoveredPositions(bitmap, base_idx, gene_len) ==
    Cardinality({pos \in 0..(gene_len - 1) :
                    TestBit(bitmap, BitIdx(base_idx, pos), pos % 32)})

\* The quotient without the clamp.
Identity_unclamped(best_score, max_possible_kmers) ==
    <<best_score, max_possible_kmers>>

\* (float)best_score / max_possible_kmers, clamped to 1.0f.
Identity(best_score, max_possible_kmers) ==
    IF best_score > max_possible_kmers THEN <<1, 1>>
    ELSE <<best_score, max_possible_kmers>>

\* The AlignmentResult for the winner best = [best_gene, best_score].
BestHit_no_sentinel(index, a, seq_len, best) ==
    IF best.best_score > 0
    THEN [gene_id |-> best.best_gene,
          score |-> best.best_score,
          coverage |->
             << CoveredPositions(a.coverage_bitmap,
                                 BaseIdx(best.best_gene),
                                 index.genes[best.best_gene + 1].length),
                index.genes[best.best_gene + 1].length >>,
          identity |->
             Identity(best.best_score,
                      IF seq_len >= index.genes[best.best_gene + 1].length
                      THEN index.genes[best.best_gene + 1].length - KMER_SIZE + 1
                      ELSE seq_len - KMER_SIZE + 1)]
    ELSE [gene_id |-> IF index.num_genes > 0 THEN best.best_gene
                      ELSE UINT32_MAX,
          score |-> 0, coverage |-> <<0, 1>>, identity |-> <<0, 1>>]

BestHit(index, a, seq_len, best) ==
    IF best.best_score > 0
    THEN [gene_id |-> best.best_gene,
          score |-> best.best_score,
          coverage |->
             << CoveredPositions(a.coverage_bitmap,
                                 BaseIdx(best.best_gene),
                                 index.genes[best.best_gene + 1].length),
                index.genes[best.best_gene + 1].length >>,
          identity |->
             Identity(best.best_score,
                      IF seq_len >= index.genes[best.best_gene + 1].length
                      THEN index.genes[best.best_gene + 1].length - KMER_SIZE + 1
                      ELSE seq_len - KMER_SIZE + 1)]
    ELSE [gene_id |-> UINT32_MAX, score |-> 0,
          coverage |-> <<0, 1>>, identity |-> <<0, 1>>]

\* The ReadAlignment once the windows are scored; indeterminate when one of
\* the allocations behind it failed.
Alignment(index, read_name, seq_len, a, failed) ==
    [read_name |-> read_name,
     best_hit |-> BestHit(index, a, seq_len,
                          BestGene(a.scores, index.num_genes, 0,
                                   [best_gene |-> 0, best_score |-> 0])),
     num_kmers_in_read |-> a.total_kmers,
     indeterminate |-> failed]

\* align_read(index, read_name, sequence, seq_len): the machine and the
\* ReadAlignment (NULL for a read shorter than KMER_SIZE).  The four
\* allocations (result, read_name copy, scores, coverage_bitmap) are
\* unchecked: when one fails the first store through it is a null store.
align_read(m, read_name, mem, seq_len) ==
    IF seq_len < KMER_SIZE THEN [m |-> m, aln |-> NULL]
    ELSE IF m.fail \in (m.allocs + 1)..(m.allocs + 4) /\ m.ub = "trap"
    THEN [m |-> [m EXCEPT !.allocs = @ + 4, !.trap = TRUE], aln |-> NULL]
    ELSE [m |-> Allocated(m, 4),
          aln |-> Alignment(m.index, read_name, seq_len,
                            ScanRead(m.index, mem, seq_len,
                                     [i |-> 0,
                                      a |-> [scores |->
                                               [g \in 0..(m.index.num_genes - 1)
                                                   |-> 0],
                                             coverage_bitmap |-> << >>,
                                             total_kmers |-> 0]],
                                     seq_len).a,
                            m.fail \in (m.allocs + 1)..(m.allocs + 4))]

\* ------------------------------------------------------------- FASTQ parser
\* The first pass of align_fastq: the number of '@' bytes at offset 0 or right
\* after a newline.
CountReads(fastq_data, fastq_size) ==
    Cardinality({i \in 0..(fastq_size - 1) :
        /\ Byte(fastq_data, i) = "@"
        /\ (i = 0 \/ Byte(fastq_data, i - 1) = "\n")})

\* `while (i < fastq_size && fastq_data[i] != '\n') i++;`, run for at most
\* n iterations from i (fastq_size iterations complete it), as two halves to
\* keep the evaluation shallow.
RECURSIVE SkipLoop(_, _, _, _)
SkipLoop(fastq_data, fastq_size, i, n) ==
    IF n = 0 \/ ~(i < fastq_size /\ Byte(fastq_data, i) # "\n") THEN i
    ELSE IF n = 1 THEN i + 1
    ELSE SkipLoop(fastq_data, fastq_size,
                  SkipLoop(fastq_data, fastq_size, i, n \div 2),
                  n - (n \div 2))

SkipLine(fastq_data, fastq_size, i) ==
    SkipLoop(fastq_data, fastq_size, i, fastq_size)

\* The read-name loop: stops at a newline, a space or a tab.
RECURSIVE ParseReadName(_, _, _, _)
ParseReadName(fastq_data, fastq_size, i, name) ==
    IF /\ i < fastq_size
       /\ Byte(fastq_data, i) \notin {"\n", " ", "\t"}
    THEN ParseReadName(fastq_data, fastq_size, i + 1,
                       IF Len(name) < MAX_GENE_NAME - 1
                       THEN name \o Byte(fastq_data, i) ELSE name)
    ELSE [i |-> i, name |-> name]

\* The body of the sequence loop, for s = [i, mem].
ReadSeqStep(fastq_data, s) ==
    [i |-> s.i + 1,
     mem |-> IF ~isspace(Byte(fastq_data, s.i))
                /\ Len(s.mem) < MAX_SEQUENCE_LENGTH - 1
             THEN Append(s.mem, toupper(Byte(fastq_data, s.i))) ELSE s.mem]

\* The sequence loop: stops at a newline or a '+'.  Run for at most n
\* iterations from s (fastq_size iterations complete it), as two halves.
RECURSIVE ReadSeqLoop(_, _, _, _)
ReadSeqLoop(fastq_data, fastq_size, s, n) ==
    IF n = 0 \/ ~(s.i < fastq_size /\ Byte(fastq_data, s.i) \notin {"\n", "+"})
    THEN s
    ELSE IF n = 1 THEN ReadSeqStep(fastq_data, s)
    ELSE ReadSeqLoop(fastq_data, fastq_size,
                     ReadSeqLoop(fastq_data, fastq_size, s, n \div 2),
                     n - (n \div 2))

ParseReadSeq(fastq_data, fastq_size, i) ==
    ReadSeqLoop(fastq_data, fastq_size, [i |-> i, mem |-> << >>], fastq_size)

\* p = [m, results, overrun]: results is (*results)[0 .. *num_results - 1];
\* overrun records a store at (*results)[*num_results] with
\* *num_results >= read_count, outside the array.
\* `if (aln) { (*results)[*num_results] = aln; (*num_results)++; }`
StoreAlignment_prepend(p, read_count, r) ==
    IF r.aln # NULL
    THEN [m |-> r.m,
          results |-> <<r.aln>> \o p.results,
          overrun |-> p.overrun \/ Len(p.results) >= read_count]
    ELSE [p EXCEPT !.m = r.m]

\* The alignment is stored twice.
StoreAlignment_twice(p, read_count, r) ==
    IF r.aln # NULL
    THEN [m |-> r.m,
          results |-> Append(Append(p.results, r.aln), r.aln),
          overrun |-> p.overrun \/ Len(p.results) + 1 >= read_count]
    ELSE [p EXCEPT !.m = r.m]

StoreAlignment(p, read_count, r) ==
    IF r.aln # NULL
    THEN [m |-> r.m,
          results |-> Append(p.results, r.aln),
          overrun |-> p.overrun \/ Len(p.results) >= read_count]
    ELSE [p EXCEPT !.m = r.m]

\* A record whose name n and sequence q have been read: the two remaining
\* lines are skipped and the read is aligned when it has KMER_SIZE bases.
RecordRead(fastq_data, fastq_size, read_count, p, n, q) ==
    [i |-> SkipLine(fastq_data, fastq_size,
                    SkipLine(fastq_data, fastq_size, q.i) + 1) + 1,
     p |-> IF Len(q.mem) >= KMER_SIZE
           THEN StoreAlignment(p, read_count,
                               align_read(p.m, n.name, Append(q.mem, NUL),
                                          Len(q.mem)))
           ELSE p]

RecordNamed(fastq_data, fastq_size, read_count, p, n) ==
    RecordRead(fastq_data, fastq_size, read_count, p, n,
               ParseReadSeq(fastq_data, fastq_size,
                            SkipLine(fastq_data, fastq_size, n.i) + 1))

\* One iteration of the while loop of align_fastq at offset i.
AlignStep(fastq_data, fastq_size, read_count, i, p) ==
    IF Byte(fastq_data, i) # "@"
    THEN [i |-> SkipLine(fastq_data, fastq_size, i) + 1, p |-> p]
    ELSE RecordNamed(fastq_data, fastq_size, read_count, p,
                     ParseReadName(fastq_data, fastq_size, i + 1, ""))

RECURSIVE AlignLoop(_, _, _, _)
AlignNext(fastq_data, fastq_size, read_count, s) ==
    AlignLoop(fastq_data, fastq_size, read_count, s)

AlignLoop(fastq_data, fastq_size, read_count, s) ==
    IF s.i >= fastq_size \/ s.p.m.trap THEN s.p
    ELSE AlignNext(fastq_data, fastq_size, read_count,
                   AlignStep(fastq_data, fastq_size, read_count, s.i, s.p))

AlignReturn(p) ==
    [m |-> p.m, ret |-> Len(p.results), results |-> p.results,
     overrun |-> p.overrun]

\* align_fastq once read_count is known.  The results array and the sequence
\* scratch buffer are the two checked allocations.
AlignCounted(m, fastq_data, fastq_size, read_count) ==
    IF read_count = 0
    THEN [m |-> m, ret |-> 0, results |-> << >>, overrun |-> FALSE]
    ELSE IF m.fail = m.allocs + 1
    THEN [m |-> Allocated(m, 1), ret |-> -1, results |-> << >>,
          overrun |-> FALSE]
    ELSE IF m.fail = m.allocs + 2
    THEN [m |-> Allocated(m, 2), ret |-> -1, results |-> << >>,
          overrun |-> FALSE]
    ELSE AlignReturn(AlignLoop(fastq_data, fastq_size, read_count,
                               [i |-> 0,
                                p |-> [m |-> Allocated(m, 2),
                                       results |-> << >>,
                                       overrun |-> FALSE]]))

\* align_fastq(m.index, fastq_data, fastq_size, &results, &num_results):
\* the machine, the return value, the results array (<< >> when it is left
\* NULL) and whether a store went outside it.
align_fastq(m, fastq_data, fastq_size) ==
    AlignCounted(m, fastq_data, fastq_size, CountReads(fastq_data, fastq_size))

\* ----------------------------------------------------------------- printf
Digits == "0123456789"

Digit(d) == SubSeq(Digits, d + 1, d + 1)

\* "%u" / "%d" of a natural number.
RECURSIVE FormatUnsigned(_)
FormatUnsigned(n) ==
    IF n < 10 THEN Digit(n)
    ELSE FormatUnsigned(n \div 10) \o Digit(n % 10)

\* The ten-thousandths t >= 0 as "d.dddd".
FormatFixed4(t) ==
    FormatUnsigned(t \div 10000) \o "."
    \o Digit((t \div 1000) % 10) \o Digit((t \div 100) % 10)
    \o Digit((t \div 10) % 10) \o Digit(t % 10)

\* The quotient num / den in ten-thousandths, rounded to nearest, an exact
\* tie to even.
RoundTenThousandths(num, den) ==
    IF \/ 2 * ((num * 10000) % den) > den
       \/ (2 * ((num * 10000) % den) = den
           /\ ((num * 10000) \div den) % 2 = 1)
    THEN ((num * 10000) \div den) + 1
    ELSE (num * 10000) \div den

\* "%.4f" of the float f[1] / f[2] (0 <= f[1], 0 < f[2]).
FormatFloat4(f) == FormatFixed4(RoundTenThousandths(f[1], f[2]))

\* An output buffer: size bytes at output, text the string it holds (the
\* bytes before the first NUL, meaningful when terminated), pos the running
\* offset, overflow set by a store outside the buffer.
\*
\* pos += snprintf(output + pos, size - pos, "%s", str): at most size - pos - 1
\* bytes and a NUL are stored and the full length is returned; nothing is
\* stored when size - pos is 0; when pos > size the size_t difference wraps
\* and the whole string is stored past the end of the buffer.
Snprintf(o, str) ==
    IF o.pos > o.size
    THEN [o EXCEPT !.overflow = TRUE, !.pos = @ + Len(str)]
    ELSE IF o.size - o.pos = 0
    THEN [o EXCEPT !.pos = @ + Len(str)]
    ELSE [o EXCEPT !.text = @ \o strncpy(str, o.size - o.pos - 1),
                   !.terminated = TRUE,
                   !.pos = @ + Len(str)]

\* A string the wrappers return with strdup.
Literal(str) ==
    [size |-> Len(str) + 1, text |-> str, terminated |-> TRUE,
     pos |-> Len(str), overflow |-> FALSE]

\* ------------------------------------------------------ exported wrappers
\* The wrappers work on g = [global_index, live]: the static pointer and the
\* number of KmerIndex objects on the heap.  Each returns the new g, what the
\* caller gets back, whether the call trapped and the number of allocations
\* it attempted.

\* swiftamr_build_index after index_build_from_fasta returned r.
BuildFinish(r) ==
    IF r.m.trap
    THEN [global_index |-> r.m.index, live |-> r.m.live, ret |-> 0,
          trap |-> TRUE, allocs |-> r.m.allocs]
    ELSE IF r.ret < 0
    THEN [global_index |-> NULL, live |-> index_destroy(r.m).live,
          ret |-> -1, trap |-> FALSE, allocs |-> r.m.allocs]
    ELSE [global_index |-> r.m.index, live |-> r.m.live, ret |-> r.ret,
          trap |-> FALSE, allocs |-> r.m.allocs]

\* swiftamr_build_index after `global_index = index_create()`.
BuildCreated(m, fasta_data, fasta_size) ==
    IF m.index = NULL
    THEN [global_index |-> NULL, live |-> m.live, ret |-> -1, trap |-> FALSE,
          allocs |-> m.allocs]
    ELSE BuildFinish(index_build_from_fasta(m, fasta_data, fasta_size))

swiftamr_build_index(g, fasta_data, fasta_size, fail, ub) ==
    BuildCreated(index_create(index_destroy(
                    Machine(g.global_index, g.live, fail, ub))),
                 fasta_data, fasta_size)

\* The gene column of a row.
GeneName(index, aln) ==
    IF aln.best_hit.gene_id # UINT32_MAX
    THEN index.genes[aln.best_hit.gene_id + 1].name
    ELSE "No_hit"

\* "%s\t%s\t%u\t%.4f\t%.4f\n"
FormatRow(index, aln) ==
    aln.read_name \o "\t" \o GeneName(index, aln) \o "\t"
    \o FormatUnsigned(aln.best_hit.score) \o "\t"
    \o FormatFloat4(aln.best_hit.coverage) \o "\t"
    \o FormatFloat4(aln.best_hit.identity) \o "\n"

\* The row loop of swiftamr_align_fastq over results[i .. num_results - 1].
RECURSIVE FormatRows(_, _, _, _)
FormatRows(index, results, i, o) ==
    IF i >= Len(results) THEN o
    ELSE FormatRows(index, results, i + 1,
                    Snprintf(o, FormatRow(index, results[i + 1])))

TsvHeader == "read_name\tgene\tscore\tcoverage\tidentity\n"

NoOutput == [size |-> 0, text |-> "", terminated |-> FALSE, pos |-> 0,
             overflow |-> FALSE]

\* The TSV of swiftamr_align_fastq: `buffer_size = num_results * 512`, an
\* unchecked malloc, the header and the rows.  When the malloc fails the
\* header is stored through a null pointer, outside any buffer.
AlignOutput(r) ==
    IF ~AllocOk(r.m) THEN [NoOutput EXCEPT !.overflow = TRUE]
    ELSE FormatRows(r.m.index, r.results, 0,
                    Snprintf([NoOutput EXCEPT
                                !.size = Len(r.results) * TSV_BYTES_PER_RESULT],
                             TsvHeader))

\* The wrapper hands back an index that has lost its genes.
AlignFinish_forgets(r) ==
    [global_index |-> [r.m.index EXCEPT !.genes = << >>, !.num_genes = 0],
     live |-> r.m.live, trap |-> r.m.trap, ran |-> TRUE, ret |-> r.ret,
     results |-> r.results, overrun |-> r.overrun, allocs |-> r.m.allocs + 1,
     out |-> IF r.ret < 0 THEN Literal("ERROR: Alignment failed")
             ELSE AlignOutput(r)]

\* swiftamr_align_fastq after align_fastq returned r.
AlignFinish(r) ==
    [global_index |-> r.m.index, live |-> r.m.live,
     trap |-> r.m.trap \/ (r.ret >= 0 /\ ~AllocOk(r.m) /\ r.m.ub = "trap"),
     ran |-> TRUE, ret |-> r.ret, results |-> r.results,
     overrun |-> r.overrun,
     allocs |-> IF r.m.trap \/ r.ret < 0 THEN r.m.allocs ELSE r.m.allocs + 1,
     out |-> IF r.m.trap THEN NoOutput
             ELSE IF r.ret < 0 THEN Literal("ERROR: Alignment failed")
             ELSE AlignOutput(r)]

\* swiftamr_align_fastq once global_index is known to be non-null.
AlignLive(g, fastq_data, fastq_size, fail, ub) ==
    AlignFinish(align_fastq(Machine(g.global_index, g.live, fail, ub),
                            fastq_data, fastq_size))

swiftamr_align_fastq_unguarded(g, fastq_data, fastq_size, fail, ub) ==
    AlignLive(IF g.global_index # NULL THEN g
              ELSE [g EXCEPT !.global_index =
                       [EmptyIndex EXCEPT !.corrupt = TRUE]],
              fastq_data, fastq_size, fail, ub)

swiftamr_align_fastq(g, fastq_data, fastq_size, fail, ub) ==
    IF g.global_index = NULL
    THEN [global_index |-> g.global_index, live |-> g.live, trap |-> FALSE,
          ran |-> FALSE, ret |-> 0, results |-> << >>, overrun |-> FALSE,
          allocs |-> 0, out |-> Literal("ERROR: Index not initialized")]
    ELSE AlignLive(g, fastq_data, fastq_size, fail, ub)

\* swiftamr_get_stats: the string returned.
swiftamr_get_stats(g) ==
    IF g.global_index = NULL THEN Literal("No index loaded")
    ELSE Snprintf([NoOutput EXCEPT !.size = STATS_BUFFER_SIZE],
                  "Index Statistics:\n"
                  \o "  Number of genes: "
                  \o FormatUnsigned(g.global_index.num_genes) \o "\n"
                  \o "  K-mer size: " \o FormatUnsigned(KMER_SIZE) \o "\n"
                  \o "  Hash table size: "
                  \o FormatUnsigned(g.global_index.table_size) \o "\n")

\* The index is destroyed and the pointer to it is kept.
swiftamr_cleanup_dangling(g) ==
    [global_index |-> g.global_index,
     live |-> index_destroy(Machine(g.global_index, g.live, 0, "trap")).live]

swiftamr_cleanup(g) ==
    IF g.global_index # NULL
    THEN [global_index |-> NULL,
          live |-> index_destroy(Machine(g.global_index, g.live, 0, "trap")).live]
    ELSE g

\* ------------------------------------------------------------------ inputs
\* The FASTA records and FASTQ reads the inputs are made of.
GeneCatalogue ==
    << [name |-> "geneA", seq |-> "ACGTACGTACGTACGTACGT"],
       [name |-> "gB",    seq |-> "ACGTACGTACGTACGTACGT"],
       [name |-> "g",     seq |-> "AAAAAAAAAAAAAAAAA"],
       [name |-> "e",     seq |-> ""],
       [name |-> "gN",    seq |-> "nnACGTACGTACGTACGTaaaaaaaaaaaaaaaaa"],
       [name |-> "tiny",  seq |-> "ACGTACGTAC"],
       [name |-> "x>y",   seq |-> "ACGTACGTACGTACGTACGT>mid\nTTTTTTTTTTTTTTTTTTTT"] >>

\* A read is a four-line record; qual is its quality line.
ReadCatalogue ==
    << [name |-> "r1",    seq |-> "ACGTACGTACGTACGTACGT",  qual |-> "IIII"],
       [name |-> "r2",    seq |-> "TTTTTTTTTTTTTTTTTTTT",  qual |-> "IIII"],
       [name |-> "q",     seq |-> "ACGTACGT ACGTACGTACGT", qual |-> "@III"],
       [name |-> "r",     seq |-> "AAAAAAAANAAAAAAAAA",    qual |-> "IIII"],
       [name |-> "short", seq |-> "ACGTACGT        AC",    qual |-> "IIII"],
       [name |-> "rN",    seq |-> "Nacgtacgtacgtacgtacgt", qual |-> "IIII"] >>

\* The most records in a FASTA and the most reads in a FASTQ.
MaxRecords == 2
MaxReads == 3
\* The allocations of one call that may be made to fail, the first MaxFail.
MaxFail == 5
\* The most records and reads of the input of a call in which one fails.
MaxFaultRecords == 1
MaxFaultReads == 1

FastaRecord(g) == ">" \o g.name \o "\n" \o g.seq \o "\n"
FastqRecord(r) == "@" \o r.name \o "\n" \o r.seq \o "\n+\n" \o r.qual \o "\n"

RECURSIVE Concat(_, _)
Concat(texts, i) ==
    IF i > Len(texts) THEN "" ELSE texts[i] \o Concat(texts, i + 1)

\* An input is a choice of catalogue entries, in catalogue order.
Choices(catalogue, most) ==
    {c \in UNION {[1..k -> 1..Len(catalogue)] : k \in 0..most} :
        \A k \in 1..(Len(c) - 1) : c[k] < c[k + 1]}

FastaOf(choice) ==
    Concat([k \in 1..Len(choice) |-> FastaRecord(GeneCatalogue[choice[k]])], 1)
FastqOf(choice) ==
    Concat([k \in 1..Len(choice) |-> FastqRecord(ReadCatalogue[choice[k]])], 1)

FastaChoices == Choices(GeneCatalogue, MaxRecords)
FastqChoices == Choices(ReadCatalogue, MaxReads)

\* ------------------------------------------------------------ state machine
\* global_index and live are the engine; crashed is set when a call trapped;
\* call is the call the host has made and not yet taken the result of; built
\* is the choice of records handed to the last build_index call since the
\* last cleanup (history); oom is set once an allocation has failed.
VARIABLES global_index, live, crashed, call, built, oom

vars == <<global_index, live, crashed, call, built, oom>>

Idle == [op |-> "none", choice |-> << >>, fail |-> 0, allocs |-> 0,
         ran |-> FALSE, ret |-> 0, results |-> << >>, overrun |-> FALSE,
         out |-> NoOutput, before |-> NULL]

G == [global_index |-> global_index, live |-> live]

Init ==
    /\ global_index = NULL
    /\ live = 0
    /\ crashed = FALSE
    /\ call = Idle
    /\ built = << >>
    /\ oom = FALSE

\* The allocation that failed in a call that attempted allocs allocations
\* with the fail-th set to fail: 0 when the call never got that far.
Failed(fail, allocs) == IF fail <= allocs THEN fail ELSE 0

BuildIndex(choice, fail, ub) ==
    /\ ~crashed /\ call.op = "none"
    /\ fail = 0 \/ ~oom
    /\ \E r \in {swiftamr_build_index(G, FastaOf(choice), Len(FastaOf(choice)),
                                      fail, ub)} :
          /\ global_index' = r.global_index
          /\ live' = r.live
          /\ crashed' = r.trap
          /\ call' = [Idle EXCEPT !.op = "build_index", !.choice = choice,
                                  !.fail = Failed(fail, r.allocs),
                                  !.allocs = r.allocs,
                                  !.ret = r.ret, !.before = global_index]
          /\ oom' = (oom \/ Failed(fail, r.allocs) # 0)
    /\ built' = choice

AlignFastq(choice, fail, ub) ==
    /\ ~crashed /\ call.op = "none"
    /\ fail = 0 \/ ~oom
    /\ \E r \in {swiftamr_align_fastq(G, FastqOf(choice), Len(FastqOf(choice)),
                                      fail, ub)} :
          /\ global_index' = r.global_index
          /\ live' = r.live
          /\ crashed' = r.trap
          /\ oom' = (oom \/ Failed(fail, r.allocs) # 0)
          /\ call' = [Idle EXCEPT !.op = "align_fastq", !.choice = choice,
                                  !.fail = Failed(fail, r.allocs),
                                  !.allocs = r.allocs,
                                  !.ran = r.ran, !.ret = r.ret,
                                  !.results = r.results,
                                  !.overrun = r.overrun,
                                  !.out = r.out, !.before = global_index]
    /\ built' = built

GetStats ==
    /\ ~crashed /\ call.op = "none"
    /\ call' = [Idle EXCEPT !.op = "get_stats", !.out = swiftamr_get_stats(G),
                            !.before = global_index]
    /\ UNCHANGED <<global_index, live, crashed, built, oom>>

Cleanup ==
    /\ ~crashed /\ call.op = "none"
    /\ \E r \in {swiftamr_cleanup(G)} :
          /\ global_index' = r.global_index
          /\ live' = r.live
    /\ call' = [Idle EXCEPT !.op = "cleanup", !.before = global_index]
    /\ built' = << >>
    /\ UNCHANGED <<crashed, oom>>

\* The host takes the result of the call (and frees a returned string).
Return ==
    /\ ~crashed /\ call.op # "none"
    /\ call' = Idle
    /\ UNCHANGED <<global_index, live, crashed, built, oom>>

\* Every allocation succeeds.
Next ==
    \/ \E choice \in FastaChoices : BuildIndex(choice, 0, "trap")
    \/ \E choice \in FastqChoices : AlignFastq(choice, 0, "trap")
    \/ GetStats
    \/ Cleanup
    \/ Return

Spec == Init /\ [][Next]_vars

\* One allocation may fail, once, in a call whose input has at most
\* MaxFaultRecords records or MaxFaultReads reads.
Faults == (1..MaxFail) \X {"trap", "go"}

FaultFastaChoices == Choices(GeneCatalogue, MaxFaultRecords)
FaultFastqChoices == Choices(ReadCatalogue, MaxFaultReads)

NextOOM ==
    \/ Next
    \/ \E choice \in FaultFastaChoices, f \in Faults :
          BuildIndex(choice, f[1], f[2])
    \/ \E choice \in FaultFastqChoices, f \in Faults :
          AlignFastq(choice, f[1], f[2])

SpecOOM == Init /\ [][NextOOM]_vars

\* The k-mer codec on its own: kmer_is_valid and kmer_encode applied to two
\* windows of KMER_SIZE bytes, each made of two halves of the catalogue.
WindowHalves ==
    {"ACGTACGT", "acgtacgt", "AAAAAAAA", "TTTTTTTT", "GgCcAaTt", "TGCATGCA",
     "ACGTNCGT", "AC-TACGT"}

CodecInputs == {a \o b : a, b \in WindowHalves}

\* The bytes of a string as a scratch buffer.
BytesOf(str) == [i \in 1..Len(str) |-> SubSeq(str, i, i)]

\* if (kmer_is_valid(seq)) ... kmer_encode(seq) ...
Encoded(seq) ==
    [seq |-> seq, valid |-> kmer_is_valid(BytesOf(seq), 0),
     kmer |-> kmer_encode(BytesOf(seq), 0)]

Encode(s, t) ==
    /\ ~crashed /\ call.op = "none"
    /\ call' = [Idle EXCEPT !.op = "kmer_encode",
                            !.results = <<Encoded(s), Encoded(t)>>]
    /\ UNCHANGED <<global_index, live, crashed, built, oom>>

NextCodec ==
    \/ \E s, t \in CodecInputs : Encode(s, t)
    \/ Return

SpecCodec == Init /\ [][NextCodec]_vars

\* The addressing of the coverage bitmap on its own: the calloc of align_read
\* for an index of num_genes genes and the word a hit (gene_id, position) of
\* that index is marked in.
MaxGenes == 1312

\* A position is the start of a window of a gene, whose length is below
\* MAX_SEQUENCE_LENGTH - 1.
HitPositions == {0, 31, 32, MAX_SEQUENCE_LENGTH - 1 - KMER_SIZE}

Marked(num_genes, gene_id, position) ==
    [num_genes |-> num_genes, gene_id |-> gene_id, position |-> position,
     words |-> BitmapWords(num_genes),
     bit_idx |-> BitIdx(BaseIdx(gene_id), position)]

MarkHit(num_genes, gene_id, position) ==
    /\ ~crashed /\ call.op = "none"
    /\ gene_id >= 0 /\ gene_id < num_genes
    /\ call' = [Idle EXCEPT !.op = "coverage_bitmap",
                            !.results = <<Marked(num_genes, gene_id, position)>>]
    /\ UNCHANGED <<global_index, live, crashed, built, oom>>

NextBitmap ==
    \/ \E num_genes \in 1..MaxGenes, position \in HitPositions :
          \E gene_id \in {0, 1, num_genes - 1} :
             MarkHit(num_genes, gene_id, position)
    \/ Return

SpecBitmap == Init /\ [][NextBitmap]_vars

\* align_fastq on its own, on byte buffers that need not be FASTQ: up to
\* MaxLines lines of the catalogue, the last one with or without its newline,
\* aligned against an index without genes.
MaxLines == 5

LineCatalogue ==
    << "+", "ACGTACGTACGTACGTACGT", "@ACGTACGT\tACGTACGTACGT", "AC+GT@", "" >>

RECURSIVE Joined(_, _)
Joined(lines, k) ==
    IF k > Len(lines) THEN ""
    ELSE LineCatalogue[lines[k]] \o "\n" \o Joined(lines, k + 1)

\* The buffer without its last byte.
Chopped(buf) == SubSeq(buf, 1, Len(buf) - 1)

Buffers ==
    UNION {{Joined(lines, 1), Chopped(Joined(lines, 1))} :
           lines \in UNION {[1..k -> DOMAIN LineCatalogue] : k \in 1..MaxLines}}

\* What align_fastq leaves for fastq_data, with the count of its first pass.
Parsed(fastq_data, r) ==
    [fastq_data |-> fastq_data,
     read_count |-> CountReads(fastq_data, Len(fastq_data)),
     ret |-> r.ret, num_results |-> Len(r.results), overrun |-> r.overrun]

ParseBuffer ==
    /\ ~crashed /\ call.op = "none"
    /\ \E fastq_data \in Buffers :
          call' = [Idle EXCEPT
                     !.op = "align_fastq_buffer",
                     !.results =
                        <<Parsed(fastq_data,
                                 align_fastq(Machine(EmptyIndex, 1, 0, "trap"),
                                             fastq_data, Len(fastq_data)))>>]
    /\ UNCHANGED <<global_index, live, crashed, built, oom>>

NextParse ==
    \/ ParseBuffer
    \/ Return

SpecParse == Init /\ [][NextParse]_vars

\* --------------------------------------------------------------- properties
\* What the properties are stated with is read off the inputs, not computed
\* by the code under check: the bases of a sequence, its K-base windows, and
\* the lines of a report.

\* The bases of a sequence given as text: its bytes that are not white
\* space, case folded.
NotSpace(c) == ~isspace(c)

Bases(seq) ==
    SelectSeq([k \in 1..Len(seq) |-> toupper(SubSeq(seq, k, k))], NotSpace)

\* The window of K bases at 0-based position p.
WindowAt(bases, p) == SubSeq(bases, p + 1, p + KMER_SIZE)

ValidWindow(w) == \A k \in 1..Len(w) : w[k] \in {"A", "C", "G", "T"}

\* The positions of the valid windows of a sequence.
Windows(bases) ==
    {p \in 0..(Len(bases) - KMER_SIZE) : ValidWindow(WindowAt(bases, p))}

\* The (read window, gene window) pairs that match, and their number.
Matches(read, gene) ==
    {ip \in Windows(read) \X Windows(gene) :
        WindowAt(read, ip[1]) = WindowAt(gene, ip[2])}

Score(read, gene) == Cardinality(Matches(read, gene))

\* The genes of the live index, by id, and the score of a read against each.
GeneIds == 0..(global_index.num_genes - 1)

GeneBases(g) == global_index.genes[g + 1].sequence

MaxScore(read) ==
    IF GeneIds = {} THEN 0
    ELSE CHOOSE s \in {Score(read, GeneBases(g)) : g \in GeneIds} :
            \A g \in GeneIds : Score(read, GeneBases(g)) <= s

\* The reads of the FASTQ of the call, and the read an alignment is of.
ReadsOfCall == {ReadCatalogue[call.choice[k]] : k \in 1..Len(call.choice)}

ReadOf(aln) == CHOOSE r \in ReadsOfCall : r.name = aln.read_name

\* The names of the genes of the live index, by id.
GeneNames ==
    [i \in 1..global_index.num_genes |-> global_index.genes[i].name]

\* The names of a sequence of records.
NamesOf(recs) == [i \in 1..Len(recs) |-> recs[i].name]

\* The records of a FASTA that have a sequence, in order.
HasSequence(g) == g.seq # ""

Sequenced(choice) ==
    SelectSeq([k \in 1..Len(choice) |-> GeneCatalogue[choice[k]]], HasSequence)

\* The k-th line (k >= 1) of a text whose lines all end with a newline.
Newlines(text) == {i \in 1..Len(text) : SubSeq(text, i, i) = "\n"}

NewlineNo(text, k) ==
    IF k = 0 THEN 0
    ELSE CHOOSE i \in Newlines(text) :
            Cardinality({j \in Newlines(text) : j < i}) = k - 1

Line(text, k) ==
    SubSeq(text, NewlineNo(text, k - 1) + 1, NewlineNo(text, k) - 1)

\* The number of lines of a text whose lines all end with a newline.
NumLines(text) == Cardinality(Newlines(text))

\* The elements of a finite set of numbers in ascending order.
Ascending(S) ==
    [k \in 1..Cardinality(S) |->
        CHOOSE i \in S : Cardinality({j \in S : j < i}) = k - 1]

\* The lines of a text whose lines all end with a newline, given the
\* positions nl of its newlines in ascending order.
LinesAt(text, nl) ==
    [k \in 1..Len(nl) |->
        SubSeq(text, (IF k = 1 THEN 0 ELSE nl[k - 1]) + 1, nl[k] - 1)]

LinesOf(text) == LinesAt(text, Ascending(Newlines(text)))

\* The records of a FASTA as the builder delimits them (no carriage returns):
\* the first '>' of a line starts a record, whose header is the rest of that
\* line; its sequence is what follows the header line up to the next such
\* '>'.  A '>' further on in a header line is part of the header.
FirstMark(line) ==
    IF \E i \in 1..Len(line) : SubSeq(line, i, i) = ">"
    THEN CHOOSE i \in 1..Len(line) :
            /\ SubSeq(line, i, i) = ">"
            /\ \A j \in 1..(i - 1) : SubSeq(line, j, j) # ">"
    ELSE 0

\* marks[k] is FirstMark of line k; the next line after k that has a mark.
NextRecordLine(marks, k) ==
    IF \E j \in (k + 1)..Len(marks) : marks[j] > 0
    THEN CHOOSE j \in (k + 1)..Len(marks) :
            marks[j] > 0 /\ \A l \in (k + 1)..(j - 1) : marks[l] = 0
    ELSE Len(marks) + 1

RECURSIVE LinesText(_, _, _)
LinesText(lines, a, b) ==
    IF a > b THEN "" ELSE lines[a] \o "\n" \o LinesText(lines, a + 1, b)

RecordAt(lines, marks, k, next) ==
    [name |-> strncpy(SubSeq(lines[k], marks[k] + 1, Len(lines[k])),
                      MAX_GENE_NAME - 1),
     seq |-> LinesText(lines, k + 1, next - 1)
             \o (IF next <= Len(lines)
                 THEN SubSeq(lines[next], 1, marks[next] - 1) ELSE "")]

RecordsOfLines(lines, marks) ==
    [n \in 1..Cardinality({k \in 1..Len(marks) : marks[k] > 0}) |->
        RecordAt(lines, marks,
                 Ascending({k \in 1..Len(marks) : marks[k] > 0})[n],
                 NextRecordLine(marks,
                    Ascending({k \in 1..Len(marks) : marks[k] > 0})[n]))]

MarksOf(lines) == [k \in 1..Len(lines) |-> FirstMark(lines[k])]

RecordsOfText(lines) == RecordsOfLines(lines, MarksOf(lines))

HasBases(g) == Bases(g.seq) # << >>

\* The delimited records of the FASTA of a choice that have a base, in order.
Delimited(choice) ==
    SelectSeq(RecordsOfText(LinesOf(FastaOf(choice))), HasBases)

\* A call of align_fastq on a live index has returned its report.
Aligned == call.op = "align_fastq" /\ call.ran /\ ~crashed

\* A call of build_index has returned.
Built == call.op = "build_index" /\ ~crashed

\* The inputs of scenario S1.
S1Fasta == ">geneA\nACGTACGTACGTACGTACGT\n"
S1Fastq == "@r1\nACGTACGTACGTACGTACGT\n+\nIIII\n"

InS1 == Aligned /\ FastaOf(built) = S1Fasta /\ FastqOf(call.choice) = S1Fastq

\* C1, as the specification states it: in scenario S1 the report has exactly
\* one data row, with gene geneA, score 5, coverage 0.7500, identity 1.0000.
C1_SelfHit_AsStated ==
    InS1 => call.out.text = TsvHeader \o "r1\tgeneA\t5\t0.7500\t1.0000\n"

\* C1, amended: in scenario S1 the report has exactly one data row, with gene
\* geneA, score 7 (the read's windows 0 and 4 each match the gene at
\* positions 0 and 4, the windows 1, 2, 3 match once each), coverage 5/20 =
\* 0.2500 (the start positions 0..4 of the gene) and identity 1.0000.
C1_SelfHit ==
    InS1 =>
      /\ Len(call.results) = 1
      /\ call.results[1].best_hit =
            [gene_id |-> 0, score |-> 7, coverage |-> <<5, 20>>,
             identity |-> <<1, 1>>]
      /\ call.out.text = TsvHeader \o "r1\tgeneA\t7\t0.2500\t1.0000\n"

C1_Witness == InS1 /\ Len(call.results) = 1

\* C2: winner-takes-all.  A read has at most one ReadAlignment in the batch,
\* and when some gene scores above zero the alignment's gene is one of
\* maximum score, the one of smallest id among those, with that score.
C2_WinnerTakesAll ==
    Aligned =>
      /\ \A r \in ReadsOfCall :
            Cardinality({n \in DOMAIN call.results :
                            call.results[n].read_name = r.name}) <= 1
      /\ \A n \in DOMAIN call.results :
            MaxScore(Bases(ReadOf(call.results[n]).seq)) > 0 =>
              /\ call.results[n].best_hit.score =
                    MaxScore(Bases(ReadOf(call.results[n]).seq))
              /\ call.results[n].best_hit.gene_id \in GeneIds
              /\ \A g \in GeneIds :
                    Score(Bases(ReadOf(call.results[n]).seq), GeneBases(g))
                       = MaxScore(Bases(ReadOf(call.results[n]).seq))
                    => call.results[n].best_hit.gene_id <= g
              /\ Score(Bases(ReadOf(call.results[n]).seq),
                       GeneBases(call.results[n].best_hit.gene_id))
                    = MaxScore(Bases(ReadOf(call.results[n]).seq))

\* Two genes tie for the maximum score of a read that was aligned.
C2_Witness ==
    /\ Aligned
    /\ \E n \in DOMAIN call.results : \E g1, g2 \in GeneIds :
          /\ g1 < g2
          /\ call.results[n].best_hit.gene_id = g1
          /\ Score(Bases(ReadOf(call.results[n]).seq), GeneBases(g1)) > 0
          /\ Score(Bases(ReadOf(call.results[n]).seq), GeneBases(g1))
                = Score(Bases(ReadOf(call.results[n]).seq), GeneBases(g2))

\* The result of a read without a hit, and its row in the report.
NoHit ==
    [gene_id |-> UINT32_MAX, score |-> 0, coverage |-> <<0, 1>>,
     identity |-> <<0, 1>>]

NoHitRow(read_name) == read_name \o "\tNo_hit\t0\t0.0000\t0.0000"

\* C3: no-hit encoding.  An aligned read none of whose valid windows occurs
\* in an indexed gene has the sentinel as gene id, score 0, coverage 0 and
\* identity 0, and its row names the gene No_hit; and a result holds the
\* sentinel only when no gene scores above zero.
C3_NoHitEncoding ==
    Aligned =>
      \A n \in DOMAIN call.results :
         /\ MaxScore(Bases(ReadOf(call.results[n]).seq)) = 0 =>
               /\ call.results[n].best_hit = NoHit
               /\ Line(call.out.text, n + 1)
                     = NoHitRow(call.results[n].read_name)
         /\ call.results[n].best_hit.gene_id = UINT32_MAX =>
               MaxScore(Bases(ReadOf(call.results[n]).seq)) = 0

\* A read without a hit was aligned against an index that holds a gene.
C3_Witness ==
    /\ Aligned
    /\ global_index.num_genes > 0
    /\ \E n \in DOMAIN call.results :
          /\ MaxScore(Bases(ReadOf(call.results[n]).seq)) = 0
          /\ call.results[n].best_hit.gene_id = UINT32_MAX

\* The hits stored in the live index: [gene_id, position] records.
StoredHits ==
    UNION {{e.hits[j] : j \in 1..e.num_hits} :
           e \in UNION {{global_index.table[h][n] :
                           n \in 1..Len(global_index.table[h])} :
                        h \in DOMAIN global_index.table}}

\* C4: invalid k-mers are skipped.  Every hit of the index is a window of
\* its gene made of A, C, G, T only; an alignment has looked up exactly the
\* valid windows of its read; and a read without a valid window has score 0
\* and the No_hit row.
C4_InvalidKmerSkip ==
    /\ (global_index # NULL /\ ~crashed) =>
          \A hit \in StoredHits :
             /\ hit.gene_id \in GeneIds
             /\ hit.position \in Windows(GeneBases(hit.gene_id))
    /\ Aligned =>
          \A n \in DOMAIN call.results :
             /\ call.results[n].num_kmers_in_read
                   = Cardinality(Windows(Bases(ReadOf(call.results[n]).seq)))
             /\ Windows(Bases(ReadOf(call.results[n]).seq)) = {} =>
                   /\ call.results[n].best_hit.score = 0
                   /\ Line(call.out.text, n + 1)
                         = NoHitRow(call.results[n].read_name)

\* Scenario S3: the read r, whose windows all hold the N, was aligned against
\* the gene g of seventeen A's.
C4_Witness ==
    /\ Aligned
    /\ FastaOf(built) = ">g\nAAAAAAAAAAAAAAAAA\n"
    /\ \E n \in DOMAIN call.results :
          /\ ReadOf(call.results[n]).seq = "AAAAAAAANAAAAAAAAA"
          /\ call.results[n].num_kmers_in_read = 0

C6_BuildReturn_AsStated ==
    Built =>
       IF Len(FastaOf(call.choice)) = 0 \/ call.fail # 0
       THEN call.ret = -1
       ELSE call.ret = Len(Sequenced(call.choice))

\* C7, as the specification states it: when an allocation fails during
\* build_index the call reports failure and leaves no index live, and an
\* index that is live after build_index holds every record of the FASTA that
\* has a sequence.
C7_NoPartialBuild_AsStated ==
    Built =>
       /\ call.fail # 0 =>
             /\ call.ret = -1
             /\ global_index = NULL
             /\ live = 0
       /\ global_index # NULL =>
             /\ ~global_index.corrupt
             /\ GeneNames = [i \in 1..Len(Sequenced(call.choice)) |->
                               Sequenced(call.choice)[i].name]

\* The engine a build of the FASTA leaves when it starts with no index.
FreshBuild(choice) ==
    swiftamr_build_index([global_index |-> NULL, live |-> 0],
                         FastaOf(choice), Len(FastaOf(choice)), 0, "trap")

\* The hits of the genes of a FASTA: every valid window of every record that
\* has a sequence, under the number of the record among those.
HitsOfRecords(recs) ==
    UNION {{[gene_id |-> i - 1, position |-> p] :
              p \in Windows(Bases(recs[i].seq))} :
           i \in 1..Len(recs)}

HitsOf(choice) == HitsOfRecords(Delimited(choice))

\* C8: there is at most one live index, the one global_index points to; and
\* while the index of the last build is live it holds exactly the genes and
\* the hits of that build's FASTA, as if built with nothing before it.
C8_OneLiveIndex ==
    /\ live <= 1
    /\ (global_index # NULL) <=> (live = 1)
    /\ (global_index # NULL /\ ~crashed) =>
          /\ global_index = FreshBuild(built).global_index
          /\ GeneNames = NamesOf(Delimited(built))
          /\ StoredHits = HitsOf(built)

\* A build has replaced the index of an earlier build of another FASTA.
C8_Witness ==
    /\ Built
    /\ call.before # NULL
    /\ global_index # NULL
    /\ call.before.genes # global_index.genes
    /\ call.before.num_genes > 0
    /\ global_index.num_genes > 0

C10_TsvReport_AsStated ==
    (Aligned /\ call.ret >= 0) =>
       /\ call.out.terminated
       /\ ~call.out.overflow
       /\ call.out.pos < call.out.size
       /\ call.out.text =
             TsvHeader
             \o Concat([n \in 1..Len(call.results) |->
                          FormatRow(global_index, call.results[n])], 1)

\* The places (1-based) of the records of the call's FASTQ that have a name.
PlacesOf(read_name) ==
    {k \in 1..Len(call.choice) :
        ReadCatalogue[call.choice[k]].name = read_name}

\* C11: order preservation.  The ReadAlignments of the batch are in the order
\* of their records in the FASTQ, and the data rows of the report are the rows
\* of the ReadAlignments, one each, in the order of the batch.
C11_OrderPreserved ==
    Aligned =>
       /\ \A i, j \in DOMAIN call.results :
             i < j =>
                \A a \in PlacesOf(call.results[i].read_name) :
                   \A b \in PlacesOf(call.results[j].read_name) : a < b
       /\ (call.ret >= 1) =>
             /\ NumLines(call.out.text) = Len(call.results) + 1
             /\ \A n \in DOMAIN call.results :
                   Line(call.out.text, n + 1) \o "\n"
                      = FormatRow(global_index, call.results[n])

\* Three reads were aligned: a hit, then a read without a hit, then a hit.
C11_Witness ==
    /\ Aligned
    /\ Len(call.choice) = 3
    /\ Len(call.results) = 3
    /\ call.results[1].best_hit.gene_id # UINT32_MAX
    /\ call.results[2].best_hit.gene_id = UINT32_MAX
    /\ call.results[3].best_hit.gene_id # UINT32_MAX
    /\ NumLines(call.out.text) = 4


\* The reads of the call's FASTQ that have at least KMER_SIZE bases, in order.
LongEnough(r) == Len(Bases(r.seq)) >= KMER_SIZE

AlignableReads ==
    SelectSeq([k \in 1..Len(call.choice) |-> ReadCatalogue[call.choice[k]]],
              LongEnough)

\* C12, as the specification states it: a record with fewer than KMER_SIZE
\* bases (white space not counted) gets no ReadAlignment and is not counted,
\* and every record with at least KMER_SIZE bases gets exactly one.
C12_ReadSkipping_AsStated ==
    (Aligned /\ call.ret >= 0) =>
       /\ call.ret = Len(AlignableReads)
       /\ [n \in DOMAIN call.results |-> call.results[n].read_name]
             = NamesOf(AlignableReads)

\* A FASTQ of the catalogue is well formed: every record has its four lines.
AllAlignable ==
    \A k \in 1..Len(call.choice) : LongEnough(ReadCatalogue[call.choice[k]])

\* C13, as the specification states it: the quality line of a four-line
\* record is never read as a header, so a well-formed FASTQ of R records
\* with at least KMER_SIZE bases each gives exactly R alignments, named
\* after the R header lines.
C13_FastqBoundary_AsStated ==
    (Aligned /\ AllAlignable) =>
       /\ Len(call.results) = Len(call.choice)
       /\ \A n \in DOMAIN call.results :
             call.results[n].read_name = ReadCatalogue[call.choice[n]].name

\* The gene of the live index that an alignment names.
WinnerOf(aln) == Delimited(built)[aln.best_hit.gene_id + 1]

\* max_possible_kmers for gene length G and read length L.
MaxPossible(gene_len, seq_len) ==
    (IF gene_len < seq_len THEN gene_len ELSE seq_len) - KMER_SIZE + 1

HasHit(aln) == aln.best_hit.gene_id # UINT32_MAX

\* C14: identity.  Every ReadAlignment with a hit has
\* identity = min(1, score / max_possible_kmers), where max_possible_kmers
\* is min(|G|, L) - K + 1 for the length |G| of the winning gene and the
\* length L of the read; and identity <= 1 for every ReadAlignment.
C14_Identity ==
    Aligned =>
       \A n \in DOMAIN call.results :
          /\ call.results[n].best_hit.identity[2] > 0
          /\ call.results[n].best_hit.identity[1]
                <= call.results[n].best_hit.identity[2]
          /\ HasHit(call.results[n]) =>
                call.results[n].best_hit.identity =
                   IF call.results[n].best_hit.score
                         > MaxPossible(Len(Bases(WinnerOf(call.results[n]).seq)),
                                       Len(Bases(ReadOf(call.results[n]).seq)))
                   THEN <<1, 1>>
                   ELSE << call.results[n].best_hit.score,
                           MaxPossible(Len(Bases(WinnerOf(call.results[n]).seq)),
                                       Len(Bases(ReadOf(call.results[n]).seq))) >>

\* A read whose score exceeds max_possible_kmers, reported with identity 1.
C14_Witness ==
    /\ Aligned
    /\ \E n \in DOMAIN call.results :
          /\ HasHit(call.results[n])
          /\ call.results[n].best_hit.score
                > MaxPossible(Len(Bases(WinnerOf(call.results[n]).seq)),
                              Len(Bases(ReadOf(call.results[n]).seq)))
          /\ call.results[n].best_hit.identity = <<1, 1>>

\* The alignments of the call's FASTQ against the index a fresh build of the
\* FASTA of choice leaves.
AlignmentsOn(choice) ==
    swiftamr_align_fastq(FreshBuild(choice), FastqOf(call.choice),
                         Len(FastqOf(call.choice)), 0, "trap").results

\* The same reads, none with a greater winning score in the first batch.
NoScoreAbove(fewer, more) ==
    /\ Len(fewer) = Len(more)
    /\ \A n \in DOMAIN more :
          /\ fewer[n].read_name = more[n].read_name
          /\ fewer[n].best_hit.score <= more[n].best_hit.score

\* C15: score monotonicity.  For every read, the winning score against the
\* index built from a FASTA followed by further gene records is never smaller
\* than the winning score against the index built from that FASTA alone.
C15_ScoreMonotone ==
    Aligned =>
       \A k \in 0..(Len(built) - 1) :
          NoScoreAbove(AlignmentsOn(SubSeq(built, 1, k)), call.results)

\* A read whose winning score rises, and whose winner changes, when a gene
\* record is appended to the FASTA.
C15_Witness ==
    /\ Aligned /\ Len(built) = 2
    /\ \E n \in DOMAIN call.results :
          /\ HasHit(call.results[n])
          /\ HasHit(AlignmentsOn(SubSeq(built, 1, 1))[n])
          /\ AlignmentsOn(SubSeq(built, 1, 1))[n].best_hit.score
                < call.results[n].best_hit.score
          /\ AlignmentsOn(SubSeq(built, 1, 1))[n].best_hit.gene_id
                # call.results[n].best_hit.gene_id

\* The allocation that failed in the call is one of the four that align_read
\* makes for a read (after the results array and the sequence buffer).
PerReadFailure ==
    /\ call.op = "align_fastq" /\ call.ran
    /\ call.fail > 2
    /\ call.fail <= 2 + 4 * Len(AlignableReads)

\* C16, as the specification states it: when an allocation of the per-read
\* scratch memory fails, the call reports a fatal error for the batch (a
\* negative return, surfaced as an ERROR string); the unallocated memory is
\* not used and no partial result is returned.
C16_ReadAllocFailure_AsStated ==
    PerReadFailure =>
       /\ ~crashed
       /\ call.ret < 0
       /\ call.out = Literal("ERROR: Alignment failed")

\* C17: cleanup is idempotent.  After a call of cleanup no index is live;
\* a further call, or a call when no index was live, changes nothing and
\* frees nothing (the number of live indexes never falls below zero); and
\* get_stats then returns "No index loaded".
C17_CleanupIdempotent ==
    /\ live >= 0
    /\ call.op = "cleanup" =>
          /\ global_index = NULL
          /\ live = 0
          /\ swiftamr_cleanup(G) = G
          /\ swiftamr_get_stats(G) = Literal("No index loaded")
    /\ (call.op = "cleanup" /\ call.before = NULL) =>
          swiftamr_cleanup([global_index |-> call.before, live |-> live]) = G
    /\ (call.op = "get_stats" /\ global_index = NULL) =>
          call.out = Literal("No index loaded")

\* cleanup called when no index is live: on a fresh engine, or as the second
\* of two cleanups.
C17_Witness ==
    /\ call.op = "cleanup" /\ call.before = NULL
    /\ global_index = NULL /\ live = 0

\* The code of a window of K valid bases, read off its text: two bits a base,
\* the first base highest, in 16-bit limbs like the k-mers of the index.
BaseValue(c) == CASE c = "A" -> 0 [] c = "C" -> 1 [] c = "G" -> 2 [] c = "T" -> 3

RECURSIVE LimbValue(_, _, _)
LimbValue(w, from, to) ==
    IF from > to THEN 0
    ELSE 4 * LimbValue(w, from, to - 1) + BaseValue(w[to])

CodeOfWindow(w) ==
    << 0, 0, LimbValue(w, 1, KMER_SIZE \div 2),
       LimbValue(w, (KMER_SIZE \div 2) + 1, KMER_SIZE) >>

\* The valid windows of the gene of the given id, each with its code.
CodedWindows(gene_id, bases) ==
    {[kmer |-> CodeOfWindow(WindowAt(bases, p)),
      hit |-> [gene_id |-> gene_id, position |-> p]] : p \in Windows(bases)}

\* The valid windows of the genes recs, by id, each with its code.
CodedHits(recs) ==
    UNION {CodedWindows(i - 1, Bases(recs[i].seq)) : i \in 1..Len(recs)}

\* Every occurrence of the k-mer code among them: [gene_id, position].
Occurrences(coded, kmer) == {c.hit : c \in {d \in coded : d.kmer = kmer}}

\* The hit list is in order of gene id, then of position.
HitsInOrder(hits) ==
    \A i, j \in DOMAIN hits :
       i < j => \/ hits[i].gene_id < hits[j].gene_id
                \/ /\ hits[i].gene_id = hits[j].gene_id
                   /\ hits[i].position < hits[j].position

\* The codes of the valid windows of every sequence of the two catalogues.
KnownCodes ==
    UNION {{CodeOfWindow(WindowAt(Bases(GeneCatalogue[g].seq), p)) :
              p \in Windows(Bases(GeneCatalogue[g].seq))} :
           g \in DOMAIN GeneCatalogue}
    \cup
    UNION {{CodeOfWindow(WindowAt(Bases(ReadCatalogue[r].seq), p)) :
              p \in Windows(Bases(ReadCatalogue[r].seq))} :
           r \in DOMAIN ReadCatalogue}

\* The entry of the index for a code is the one its occurrences call for.
EntryHolds(entry, kmer, occurrences) ==
    IF occurrences = {} THEN entry = NULL
    ELSE /\ entry # NULL
         /\ entry.kmer = kmer
         /\ entry.num_hits = Cardinality(occurrences)
         /\ Len(entry.hits) = entry.num_hits
         /\ {entry.hits[j] : j \in DOMAIN entry.hits} = occurrences
         /\ HitsInOrder(entry.hits)

\* The index holds the coded windows, and nothing else.
IndexHolds(index, coded) ==
    /\ \A h \in DOMAIN index.table :
          \A i, j \in DOMAIN index.table[h] :
             /\ BucketOf(index.table[h][i].kmer) = h
             /\ i # j => index.table[h][i].kmer # index.table[h][j].kmer
             /\ kmer_lookup(index, index.table[h][i].kmer) = index.table[h][i]
             /\ Occurrences(coded, index.table[h][i].kmer) # {}
    /\ \A kmer \in KnownCodes :
          EntryHolds(kmer_lookup(index, kmer), kmer, Occurrences(coded, kmer))

\* C18: index contents.  After a build every chain holds at most one entry
\* for a k-mer code, each in the bucket of its code; kmer_lookup finds an
\* entry for a code exactly when the code is that of a valid window of an
\* indexed gene; and the entry's hit list is the list of all occurrences of
\* the code, by gene id and then by position, also when several codes share
\* a bucket.
C18_IndexContents ==
    (global_index # NULL /\ ~crashed) =>
       IndexHolds(global_index, CodedHits(Delimited(built)))

\* An index with a bucket that several codes share, one of them with hits in
\* two genes at two positions each.
C18_Witness ==
    /\ Built /\ global_index # NULL
    /\ \E h \in DOMAIN global_index.table :
          /\ Len(global_index.table[h]) >= 3
          /\ \E n \in DOMAIN global_index.table[h] :
                /\ global_index.table[h][n].num_hits = 4
                /\ global_index.table[h][n].hits[1].gene_id
                      # global_index.table[h][n].hits[4].gene_id

\* The positions of a gene at which a valid window of the read occurs.
Covered(read, gene) == {ip[2] : ip \in Matches(read, gene)}

\* C19: coverage.  Every ReadAlignment with a hit on gene G has coverage
\* c / |G|, where c is the number of distinct positions of G at which the
\* k-mer of G equals a valid window of the read; hits on other genes do not
\* count, and 0 < c <= |G|.
C19_Coverage ==
    Aligned =>
       \A n \in DOMAIN call.results :
          HasHit(call.results[n]) =>
             /\ call.results[n].best_hit.coverage =
                   << Cardinality(Covered(Bases(ReadOf(call.results[n]).seq),
                                          Bases(WinnerOf(call.results[n]).seq))),
                      Len(Bases(WinnerOf(call.results[n]).seq)) >>
             /\ call.results[n].best_hit.coverage[1] > 0
             /\ call.results[n].best_hit.coverage[1]
                   <= call.results[n].best_hit.coverage[2]

\* The winner is not gene 0, and the read covers other positions of gene 0
\* than of the winner.
C19_Witness ==
    /\ Aligned /\ global_index.num_genes >= 2
    /\ \E n \in DOMAIN call.results :
          /\ HasHit(call.results[n])
          /\ call.results[n].best_hit.gene_id > 0
          /\ Covered(Bases(ReadOf(call.results[n]).seq), GeneBases(0)) # {}
          /\ Covered(Bases(ReadOf(call.results[n]).seq), GeneBases(0))
                # Covered(Bases(ReadOf(call.results[n]).seq),
                          Bases(WinnerOf(call.results[n]).seq))
          /\ call.results[n].best_hit.coverage[1] > 1

\* C20, as the specification states it: a '>' starts a record only at the
\* start of the input or right after a newline, so the genes of a build are
\* the records that begin at the start of a line: a '>' inside a header or
\* in the middle of a sequence line neither ends a record nor starts one.
C20_FastaBoundary_AsStated ==
    (Built /\ call.ret >= 0) =>
       /\ call.ret = Len(Sequenced(call.choice))
       /\ global_index.num_genes = Len(Sequenced(call.choice))
       /\ GeneNames = NamesOf(Sequenced(call.choice))

\* What the host sees of an alignment call.
Seen(r) == [ret |-> r.ret, results |-> r.results, out |-> r.out]

\* The call's FASTQ aligned once more, on engine g.
Realigned(g) ==
    swiftamr_align_fastq(g, FastqOf(call.choice), Len(FastqOf(call.choice)),
                         0, "trap")

\* The engine after the FASTQ of the one read k was aligned on engine g.
AfterOther(g, k) ==
    swiftamr_align_fastq(g, FastqRecord(ReadCatalogue[k]),
                         Len(FastqRecord(ReadCatalogue[k])), 0, "trap")

\* The call that returned r left the engine as it is now and gave the host
\* what the call of the state gave.
SameAgain(r) ==
    /\ r.global_index = global_index /\ r.live = live
    /\ Seen(r) = Seen(call)

\* C21: alignment is read-only and repeatable.  An alignment leaves the live
\* index (gene table and every chain) as it was, whatever calls came before
\* it, and aligning the same FASTQ again on the engine the call left returns
\* the same results and the same report and leaves the engine as it is.
C21_ReadOnlyRepeatable ==
    Aligned =>
       /\ global_index = call.before
       /\ live = 1
       /\ SameAgain(Realigned(G))

\* A batch of two reads or more, one with a hit, aligned against an index
\* of two genes or more.
C21_Witness ==
    /\ Aligned /\ global_index.num_genes >= 2
    /\ Len(call.results) >= 2
    /\ \E n \in DOMAIN call.results : HasHit(call.results[n])
    /\ \E n \in DOMAIN call.results : ~HasHit(call.results[n])
    /\ SameAgain(Realigned(AfterOther(G, 1)))

\* A base after case folding, and the text of a window after case folding.
FoldBase(c) ==
    CASE c = "a" -> "A" [] c = "c" -> "C" [] c = "g" -> "G" [] c = "t" -> "T"
      [] OTHER -> c

RECURSIVE Folded(_)
Folded(s) ==
    IF s = "" THEN "" ELSE FoldBase(SubSeq(s, 1, 1)) \o Folded(SubSeq(s, 2, Len(s)))

ValidText(s) ==
    \A i \in 1..Len(s) :
       SubSeq(s, i, i) \in {"A", "C", "G", "T", "a", "c", "g", "t"}

\* The n bases a number below 4^n stands for, two bits a base, the most
\* significant pair first: 0 -> A, 1 -> C, 2 -> G, 3 -> T.
RECURSIVE DecodeBases(_, _)
DecodeBases(value, n) ==
    IF n = 0 THEN ""
    ELSE DecodeBases(value \div 4, n - 1)
         \o SubSeq("ACGT", (value % 4) + 1, (value % 4) + 1)

\* The K bases of a code below 2^32.
Decode(kmer) ==
    DecodeBases(kmer[3], KMER_SIZE \div 2) \o DecodeBases(kmer[4], KMER_SIZE \div 2)

\* What the claim asks of the code of one window.
RoundTrip(e) ==
    IF ValidText(e.seq)
    THEN /\ e.valid
         /\ e.kmer # UINT64_MAX
         /\ e.kmer[1] = 0 /\ e.kmer[2] = 0
         /\ Decode(e.kmer) = Folded(e.seq)
    ELSE ~e.valid /\ e.kmer = UINT64_MAX

\* C22: encoding round trip.  Decoding kmer_encode(s) two bits at a time
\* from the most significant pair gives s in upper case, for every window s
\* of K bases over A, C, G, T in either case; so two valid windows have the
\* same code exactly when they are equal after case folding, a valid code is
\* below 2^32, and UINT64_MAX is the code of no valid window.
C22_EncodeRoundTrip ==
    call.op = "kmer_encode" =>
       /\ RoundTrip(call.results[1])
       /\ RoundTrip(call.results[2])
       /\ (call.results[1].valid /\ call.results[2].valid) =>
             ((call.results[1].kmer = call.results[2].kmer)
                <=> (Folded(call.results[1].seq) = Folded(call.results[2].seq)))

\* Two valid windows that differ in case only, with one code, both halves of
\* which are in use.
C22_Witness ==
    /\ call.op = "kmer_encode"
    /\ call.results[1].valid /\ call.results[2].valid
    /\ call.results[1].seq # call.results[2].seq
    /\ call.results[1].kmer = call.results[2].kmer
    /\ call.results[1].kmer[3] > 0 /\ call.results[1].kmer[4] > 0

\* The stored hit lies inside its gene and its entry holds the code of the
\* gene's bases there.
InsideGene(entry, hit) ==
    /\ hit.gene_id + 1 \in DOMAIN global_index.genes
    /\ hit.position + KMER_SIZE <= global_index.genes[hit.gene_id + 1].length
    /\ ValidWindow(WindowAt(GeneBases(hit.gene_id), hit.position))
    /\ entry.kmer = CodeOfWindow(WindowAt(GeneBases(hit.gene_id), hit.position))

\* The entries of the live index.
StoredEntries ==
    UNION {{global_index.table[h][n] : n \in 1..Len(global_index.table[h])} :
           h \in DOMAIN global_index.table}

\* C23, as the specification states it: a build of any FASTA, a record
\* shorter than K bases included, ends with every stored hit inside its
\* gene, under the code of the gene's bases at the hit; a record shorter
\* than K bases has no hits, also after a longer record.
C23_HitsInsideGene_AsStated ==
    call.op = "build_index" =>
       /\ ~crashed
       /\ global_index # NULL =>
             \A e \in StoredEntries :
                \A j \in 1..e.num_hits : InsideGene(e, e.hits[j])

\* C24, as stated: for every number of genes and every hit of the index,
\* the word index gene_id * (MAX_SEQUENCE_LENGTH / 32 + 1) + position / 32 is
\* below the number of words allocated, num_genes * (MAX_SEQUENCE_LENGTH / 32
\* + 1), and a gene other than gene 0 has no word among those of gene 0, all
\* products taken in uint32_t.
C24_BitmapAddressing_AsStated ==
    call.op = "coverage_bitmap" =>
       /\ Less32(call.results[1].bit_idx, call.results[1].words)
       /\ call.results[1].gene_id # 0 =>
             ~Less32(call.results[1].bit_idx, U32(WORDS_PER_GENE))

\* One iteration of the parsing loop from offset i of the buffer, on an
\* index without genes.
StepFrom(fastq_data, i) ==
    AlignStep(fastq_data, Len(fastq_data), Len(fastq_data), i,
              [m |-> Machine(EmptyIndex, 1, 0, "trap"), results |-> << >>,
               overrun |-> FALSE])

\* The offsets at which the iterations of the parsing loop start, the offset
\* the loop ends with last; at most n iterations are followed.
RECURSIVE Offsets(_, _, _)
Offsets(fastq_data, i, n) ==
    IF i >= Len(fastq_data) \/ n = 0 THEN <<i>>
    ELSE <<i>> \o Offsets(fastq_data, StepFrom(fastq_data, i).i, n - 1)

\* The loop advances at every iteration, ends within as many iterations as
\* the buffer has bytes, and starts every iteration at the start of a line.
Advances(fastq_data, offsets) ==
    /\ offsets[Len(offsets)] >= Len(fastq_data)
    /\ \A k \in 1..(Len(offsets) - 1) :
          /\ offsets[k] < offsets[k + 1]
          /\ offsets[k] = 0 \/ Byte(fastq_data, offsets[k] - 1) = "\n"

\* C25: result array bound.  For every byte buffer the alignments the
\* parsing pass stores are at most read_count, the line-initial '@' bytes of
\* the first pass, so no store goes past the results array; align_fastq
\* returns their number; and the parsing loop advances its offset at every
\* iteration and terminates.
C25_ResultArrayBound ==
    call.op = "align_fastq_buffer" =>
       /\ call.results[1].num_results <= call.results[1].read_count
       /\ ~call.results[1].overrun
       /\ call.results[1].ret = call.results[1].num_results
       /\ Advances(call.results[1].fastq_data,
                   Offsets(call.results[1].fastq_data, 0,
                           Len(call.results[1].fastq_data)))

\* A buffer that is no FASTQ (five lines, the last cut short) fills the
\* results array: two line-initial '@', two alignments.
C25_Witness ==
    /\ call.op = "align_fastq_buffer"
    /\ call.results[1].read_count = 2
    /\ call.results[1].num_results = 2
    /\ SubSeq(call.results[1].fastq_data, Len(call.results[1].fastq_data),
              Len(call.results[1].fastq_data)) # "\n"

====
